---- MODULE Spec2Model ----
(***************************************************************************)
(* A model of src/main.rs: the Context registry (a HashMap from String     *)
(* keys to Box<dyn Any>), its push / read / write_with operations, and the *)
(* JSContextExt extension trait (read_json / update_json) that serde       *)
(* gives to the types that are Serialize + DeserializeOwned.               *)
(***************************************************************************)
EXTENDS Integers, Sequences, FiniteSets, TLC

\* ---------------------------------------------------------------------
\* Bounds of the model and constants of the program
\* ---------------------------------------------------------------------

\* usize values tried for Stuff.foo: 0..MaxFoo and the value main uses
MaxFoo == 1

\* usize values tried for NotSerializableStuff.baz: 0..MaxBaz
MaxBaz == 1

\* main: Stuff { foo: 42, .. }
InitialFoo == 42

FooVals == (0..MaxFoo) \cup {InitialFoo}

BazVals == 0..MaxBaz

BarVals == {"hello", "this will be persisted!"}

\* the keys main uses
Keys == {"stuff", "notserializablestuff"}

\* ---------------------------------------------------------------------
\* The two sample types; the field "type" is the TypeId the Any box carries
\* ---------------------------------------------------------------------

Types == {"Stuff", "NotSerializableStuff"}

Stuff(foo, bar) == [type |-> "Stuff", foo |-> foo, bar |-> bar]

NotSerializableStuff(baz) == [type |-> "NotSerializableStuff", baz |-> baz]

StuffVals == {Stuff(f, b) : f \in FooVals, b \in BarVals}

NotSerializableVals == {NotSerializableStuff(z) : z \in BazVals}

\* what a Box<dyn Any> pushed by a caller may hold
Boxes == StuffVals \cup NotSerializableVals

\* the fields of each struct, in declaration order, with their Rust types
Fields(T) ==
    CASE T = "Stuff" -> << [name |-> "foo", ty |-> "usize"],
                           [name |-> "bar", ty |-> "String"] >>
      [] T = "NotSerializableStuff" -> << [name |-> "baz", ty |-> "usize"] >>

FieldNames(T) == {Fields(T)[i].name : i \in 1..Len(Fields(T))}

\* #[derive(Serialize, Deserialize)] is on Stuff only
DerivesSerde(T) == T = "Stuff"

\* faulty variant of JSContextExt: the blanket impl without its bounds
JSContextExt_unbounded(T) == T \in Types

\* impl<T> JSContextExt for T where T: Sized + Serialize + DeserializeOwned
JSContextExt(T) == DerivesSerde(T)

\* ---------------------------------------------------------------------
\* Result and Option values
\* ---------------------------------------------------------------------

Ok == [tag |-> "Ok"]

Err(msg) == [tag |-> "Err", msg |-> msg]

Some(v) == [tag |-> "Some", val |-> v]

None == [tag |-> "None"]

\* ---------------------------------------------------------------------
\* serde_json::Value
\* ---------------------------------------------------------------------

Null == [kind |-> "Null"]

\* an integer Number: serde_json keeps it as PosInt(u64) or NegInt(i64)
Number(n) == [kind |-> "Number", repr |-> IF n >= 0 THEN "PosInt" ELSE "NegInt", n |-> n]

\* the Number n.0, kept as Float(f64)
Float(n) == [kind |-> "Number", repr |-> "Float", n |-> n]

String(s) == [kind |-> "String", s |-> s]

Array(items) == [kind |-> "Array", items |-> items]

Object(map) == [kind |-> "Object", map |-> map]

\* faulty variant of serialize_field: a usize written as a JSON string
serialize_field_stringly(ty, x) ==
    CASE ty = "usize" -> String(x)
      [] ty = "String" -> String(x)

\* Serialize for the field types: usize -> Number, String -> String
serialize_field(ty, x) ==
    CASE ty = "usize" -> Number(x)
      [] ty = "String" -> String(x)

\* Deserialize for the field types, from a Value
deserialize_field(ty, j) ==
    CASE ty = "usize" ->
             IF j.kind = "Number" /\ j.repr = "PosInt" THEN Some(j.n) ELSE None
      [] ty = "String" ->
             IF j.kind = "String" THEN Some(j.s) ELSE None

FieldIndex(T, f) == (CHOOSE i \in 1..Len(Fields(T)) : Fields(T)[i].name = f)

\* serde_json::to_value(&self) of a derived Serialize struct: an Object with
\* one entry per field
to_value(self) ==
    Object([f \in FieldNames(self.type) |->
               serialize_field(Fields(self.type)[FieldIndex(self.type, f)].ty, self[f])])

\* serde_json::from_value::<T>(value) of a derived Deserialize struct: an
\* Object holding every field (unknown entries are ignored), or an Array of
\* exactly the fields in order; anything else is an error
from_value(T, value) ==
    LET n == Len(Fields(T))
        entry(i) ==
            CASE value.kind = "Object" ->
                     IF Fields(T)[i].name \in DOMAIN value.map
                     THEN deserialize_field(Fields(T)[i].ty, value.map[Fields(T)[i].name])
                     ELSE None
              [] value.kind = "Array" ->
                     IF Len(value.items) = n
                     THEN deserialize_field(Fields(T)[i].ty, value.items[i])
                     ELSE None
              [] OTHER -> None
    IN  IF \A i \in 1..n : entry(i).tag = "Some"
        THEN [tag |-> "Ok",
              val |-> [f \in {"type"} \cup FieldNames(T) |->
                          IF f = "type" THEN T ELSE entry(FieldIndex(T, f)).val]]
        ELSE [tag |-> "Err"]

\* ---------------------------------------------------------------------
\* JSContextExt: read_json and update_json
\* ---------------------------------------------------------------------

\* the closures a caller may hand to update_json (impl Fn(Value) -> Value):
\* the one of main, which sets foo to 1 through a Stuff, and closures that
\* "poke at the json object"
Pokes == {Number(0 - 1), Number(1), Float(1), String("hello"), Null}

Transforms ==
    {[kind |-> "identity"], [kind |-> "set_foo_1"]}
    \cup {[kind |-> "poke", field |-> f, value |-> j] : f \in {"foo", "bar", "qux"}, j \in Pokes}
    \cup {[kind |-> "remove", field |-> f] : f \in {"foo", "bar"}}
    \cup {[kind |-> "replace", value |-> j] :
             j \in {Null, Array(<<Number(1), String("hello")>>), Array(<<Number(1)>>)}}

\* the closure applied to the serialized value: the Value it returns, or a
\* panic of its own (main's closure unwraps a from_value::<Stuff>)
apply_transform(tr, value) ==
    CASE tr.kind = "identity" -> [tag |-> "Ok", val |-> value]
      [] tr.kind = "set_foo_1" ->
             LET stuff == from_value("Stuff", value)
             IN  IF stuff.tag = "Err"
                 THEN [tag |-> "Panic"]
                 ELSE [tag |-> "Ok", val |-> to_value([stuff.val EXCEPT !.foo = 1])]
      [] tr.kind = "poke" ->
             IF value.kind = "Object"
             THEN [tag |-> "Ok",
                   val |-> Object([f \in DOMAIN value.map \cup {tr.field} |->
                                      IF f = tr.field THEN tr.value ELSE value.map[f]])]
             ELSE [tag |-> "Ok", val |-> value]
      [] tr.kind = "remove" ->
             IF value.kind = "Object"
             THEN [tag |-> "Ok",
                   val |-> Object([f \in DOMAIN value.map \ {tr.field} |-> value.map[f]])]
             ELSE [tag |-> "Ok", val |-> value]
      [] tr.kind = "replace" -> [tag |-> "Ok", val |-> tr.value]

\* fn read_json(&self) -> Value
read_json(self) == to_value(self)

\* faulty variant of update_json: the converted value is never assigned to *self
update_json_no_assign(self, callback) ==
    LET updated == apply_transform(callback, to_value(self))
    IN  [val |-> self,
         panicked |-> \/ updated.tag = "Panic"
                      \/ from_value(self.type, updated.val).tag = "Err"]

\* faulty variant of update_json: a failed conversion keeps the old value silently
update_json_lenient(self, callback) ==
    LET updated == apply_transform(callback, to_value(self))
    IN  IF updated.tag = "Panic"
        THEN [val |-> self, panicked |-> TRUE]
        ELSE LET deserialized == from_value(self.type, updated.val)
             IN  [val |-> IF deserialized.tag = "Err" THEN self ELSE deserialized.val,
                  panicked |-> FALSE]

\* fn update_json(&mut self, callback): the new *self, or a panic that
\* leaves *self as it was (the unwrap comes before the assignment)
update_json(self, callback) ==
    LET serialized == to_value(self)
        updated == apply_transform(callback, serialized)
    IN  IF updated.tag = "Panic"
        THEN [val |-> self, panicked |-> TRUE]
        ELSE LET deserialized == from_value(self.type, updated.val)
             IN  IF deserialized.tag = "Err"
                 THEN [val |-> self, panicked |-> TRUE]
                 ELSE [val |-> deserialized.val, panicked |-> FALSE]

\* ---------------------------------------------------------------------
\* The closures handed to write_with::<T> (impl FnMut(&mut T))
\* ---------------------------------------------------------------------

\* closures that assign a field, as main's do
FieldCallbacks(T) ==
    CASE T = "Stuff" -> {[kind |-> "set_bar", bar |-> b] : b \in BarVals}
      [] T = "NotSerializableStuff" -> {[kind |-> "set_baz", baz |-> z] : z \in BazVals}

\* closures that call update_json: they compile only where T: JSContextExt
JsonCallbacks(T) ==
    IF JSContextExt(T)
    THEN {[kind |-> "update_json", transform |-> tr] : tr \in Transforms}
    ELSE {}

Callbacks(T) == FieldCallbacks(T) \cup JsonCallbacks(T)

\* callback(as_t): the value left behind the &mut T, and whether it panicked
call(cb, as_t) ==
    CASE cb.kind = "set_bar" -> [val |-> [as_t EXCEPT !.bar = cb.bar], panicked |-> FALSE]
      [] cb.kind = "set_baz" -> [val |-> [as_t EXCEPT !.baz = cb.baz], panicked |-> FALSE]
      [] cb.kind = "update_json" -> update_json(as_t, cb.transform)

\* ---------------------------------------------------------------------
\* Context
\* ---------------------------------------------------------------------

\* Box<dyn Any>::downcast_ref / downcast_mut: the TypeId decides
downcast(box, T) == IF box.type = T THEN Some(box) ELSE None

\* the crate of main.rs, whose path type_name puts before the type's name
CratePath == "context_ext_strawdog"

\* std::any::type_name::<T>(): the path of the type, crate first
type_name(T) == CratePath \o "::" \o T

\* faulty variant of push: the duplicate is reported, but the value is replaced
push_replacing(self, key, value) ==
    [everything |-> [k \in DOMAIN self \cup {key} |-> IF k = key THEN value ELSE self[k]],
     ret |-> IF key \in DOMAIN self
             THEN Err("this exists already!, use get or with instead!")
             ELSE Ok]

\* faulty variant of push: HashMap::insert without the check
push_overwriting(self, key, value) ==
    [everything |-> [k \in DOMAIN self \cup {key} |-> IF k = key THEN value ELSE self[k]],
     ret |-> Ok]

\* Context::push
push(self, key, value) ==
    IF key \in DOMAIN self
    THEN [everything |-> self,
          ret |-> Err("this exists already!, use get or with instead!")]
    ELSE [everything |-> [k \in DOMAIN self \cup {key} |->
                             IF k = key THEN value ELSE self[k]],
          ret |-> Ok]

\* faulty variant of read: no downcast, any stored value is handed out
read_any(self, T, key) ==
    [everything |-> self,
     ret |-> IF key \in DOMAIN self THEN Some(self[key]) ELSE None]

\* faulty variant of read: the entry is taken out of the map
read_taking(self, T, key) ==
    [everything |-> [k \in DOMAIN self \ {key} |-> self[k]],
     ret |-> IF key \in DOMAIN self THEN downcast(self[key], T) ELSE None]

\* Context::read: &self, so the entries are left as they are
read(self, T, key) ==
    [everything |-> self,
     ret |-> IF key \in DOMAIN self THEN downcast(self[key], T) ELSE None]

\* faulty variant of write_with: the closure runs on a copy of the stored value
write_with_on_copy(self, T, key, cb) ==
    IF key \notin DOMAIN self
    THEN [everything |-> self, invoked |-> FALSE, panicked |-> FALSE,
          ret |-> Err("there is no contents with key " \o key)]
    ELSE LET as_t == downcast(self[key], T)
         IN  IF as_t.tag = "None"
             THEN [everything |-> self, invoked |-> FALSE, panicked |-> FALSE,
                   ret |-> Err("value with key " \o key
                                 \o " is not of expected type " \o type_name(T))]
             ELSE LET done == call(cb, as_t.val)
                  IN  [everything |-> self,
                       invoked |-> TRUE, panicked |-> done.panicked,
                       ret |-> IF done.panicked THEN [tag |-> "Panic"] ELSE Ok]

\* faulty variant of write_with: a wrong type is reported like an absent key
write_with_one_error(self, T, key, cb) ==
    LET as_t == IF key \in DOMAIN self THEN downcast(self[key], T) ELSE None
    IN  IF as_t.tag = "None"
        THEN [everything |-> self, invoked |-> FALSE, panicked |-> FALSE,
              ret |-> Err("there is no contents with key " \o key)]
        ELSE LET done == call(cb, as_t.val)
             IN  [everything |-> [self EXCEPT ![key] = done.val],
                  invoked |-> TRUE, panicked |-> done.panicked,
                  ret |-> IF done.panicked THEN [tag |-> "Panic"] ELSE Ok]

\* Context::write_with
write_with(self, T, key, cb) ==
    IF key \notin DOMAIN self
    THEN [everything |-> self, invoked |-> FALSE, panicked |-> FALSE,
          ret |-> Err("there is no contents with key " \o key)]
    ELSE LET as_t == downcast(self[key], T)
         IN  IF as_t.tag = "None"
             THEN [everything |-> self, invoked |-> FALSE, panicked |-> FALSE,
                   ret |-> Err("value with key " \o key
                                 \o " is not of expected type " \o type_name(T))]
             ELSE LET done == call(cb, as_t.val)
                  IN  [everything |-> [self EXCEPT ![key] = done.val],
                       invoked |-> TRUE, panicked |-> done.panicked,
                       ret |-> IF done.panicked THEN [tag |-> "Panic"] ELSE Ok]

\* ---------------------------------------------------------------------
\* State
\* ---------------------------------------------------------------------

VARIABLES
    everything,  \* Context.everything: the entries, a function on the keys present
    op,          \* the last call made on the context, with its arguments
    ret,         \* what that call returned
    invoked,     \* whether that call ran the caller's write_with closure
    local,       \* the value a read closure built from the borrowed view
    panicked     \* whether the program has panicked

vars == <<everything, op, ret, invoked, local, panicked>>

\* Context::default(): no entries
Init ==
    /\ everything = [k \in {} |-> None]
    /\ op = [name |-> "default"]
    /\ ret = None
    /\ invoked = FALSE
    /\ local = None
    /\ panicked = FALSE

\* ctx.push(key, Box::new(value))
Push ==
    \E key \in Keys, value \in Boxes :
        LET r == push(everything, key, value)
        IN  /\ ~panicked
            /\ everything' = r.everything
            /\ ret' = r.ret
            /\ op' = [name |-> "push", key |-> key, value |-> value]
            /\ invoked' = FALSE
            /\ local' = None
            /\ UNCHANGED panicked

\* ctx.read::<T>(key)
Read ==
    \E T \in Types, key \in Keys :
        LET r == read(everything, T, key)
        IN  /\ ~panicked
            /\ everything' = r.everything
            /\ ret' = r.ret
            /\ op' = [name |-> "read", key |-> key, T |-> T]
            /\ invoked' = FALSE
            /\ local' = None
            /\ UNCHANGED panicked

\* ctx.read(key).map(|stuff: &Stuff| { let new_stuff = Stuff { foo: stuff.foo * 2, .. } })
\* (the foo values of the model are far from usize::MAX: foo * 2 does not overflow)
ReadCopy ==
    \E key \in Keys :
        LET r == read(everything, "Stuff", key)
        IN  /\ ~panicked
            /\ everything' = r.everything
            /\ ret' = r.ret
            /\ op' = [name |-> "read_copy", key |-> key, T |-> "Stuff"]
            /\ invoked' = FALSE
            /\ local' = IF r.ret.tag = "Some"
                        THEN Some(Stuff(r.ret.val.foo * 2, r.ret.val.bar))
                        ELSE None
            /\ UNCHANGED panicked

\* ctx.read::<T>(key).map(|stuff| stuff.read_json()), for T: JSContextExt
ReadJson ==
    \E T \in Types, key \in Keys :
        LET r == read(everything, T, key)
        IN  /\ ~panicked
            /\ JSContextExt(T)
            /\ everything' = r.everything
            /\ ret' = IF r.ret.tag = "Some" THEN Some(read_json(r.ret.val)) ELSE None
            /\ op' = [name |-> "read_json", key |-> key, T |-> T]
            /\ invoked' = FALSE
            /\ local' = None
            /\ UNCHANGED panicked

\* ctx.write_with::<T>(key, cb)
WriteWith ==
    \E T \in Types, key \in Keys :
        \E cb \in Callbacks(T) :
            LET r == write_with(everything, T, key, cb)
            IN  /\ ~panicked
                /\ everything' = r.everything
                /\ ret' = r.ret
                /\ op' = [name |-> "write_with", key |-> key, T |-> T, cb |-> cb]
                /\ invoked' = r.invoked
                /\ local' = None
                /\ panicked' = r.panicked

Next == Push \/ Read \/ ReadCopy \/ ReadJson \/ WriteWith

Spec == Init /\ [][Next]_vars

\* ---------------------------------------------------------------------
\* Properties
\* ---------------------------------------------------------------------

\* the step taken is a write_with
IsWriteWith(o) == o.name = "write_with"

\* the step taken is one of the read paths
IsRead(o) == o.name \in {"read", "read_copy", "read_json"}

\* the error write_with reports for an absent key
NotFound(r, key) ==
    /\ r.tag = "Err"
    /\ r.msg = "there is no contents with key " \o key

\* the error write_with reports for a stored type other than T: it names
\* the key and then the expected type, as a path that ends in T's name
TypeMismatch(r, key, T) ==
    LET head == "value with key " \o key \o " is not of expected type "
        tail == "::" \o T
    IN  /\ r.tag = "Err"
        /\ Len(r.msg) > Len(head) + Len(tail)
        /\ SubSeq(r.msg, 1, Len(head)) = head
        /\ SubSeq(r.msg, Len(r.msg) - Len(tail) + 1, Len(r.msg)) = tail

\* C1: a push on a key already present fails with the duplicate-key error and
\* leaves the registry as it was: same keys, and the value of the first push
\* is still the one read returns.
C1_DuplicatePushFails ==
    [][(op'.name = "push" /\ op'.key \in DOMAIN everything) =>
          /\ ret'.tag = "Err"
          /\ DOMAIN everything' = DOMAIN everything
          /\ everything' = everything
          /\ read(everything', everything[op'.key].type, op'.key).ret
                 = Some(everything[op'.key])]_vars

C1_Witness ==
    /\ op.name = "push"
    /\ ret.tag = "Err"
    /\ op.key \in DOMAIN everything
    /\ everything[op.key] # op.value

\* C2: when write_with::<T>(k, cb) succeeds, the next read::<T>(k) returns the
\* value cb produced from the value stored before; writing bar on
\* {foo: 42, bar: "hello"} reads back {foo: 42, bar: <the new bar>}.
C2_WritePersists ==
    [][(IsWriteWith(op') /\ ret' = Ok) =>
          /\ op'.key \in DOMAIN everything
          /\ read(everything', op'.T, op'.key).ret
                 = Some(call(op'.cb, everything[op'.key]).val)
          /\ (op'.cb.kind = "set_bar" /\ everything[op'.key] = Stuff(InitialFoo, "hello")) =>
                 read(everything', "Stuff", op'.key).ret
                     = Some(Stuff(InitialFoo, op'.cb.bar))]_vars

C2_Witness ==
    /\ IsWriteWith(op)
    /\ ret = Ok
    /\ op.cb = [kind |-> "set_bar", bar |-> "this will be persisted!"]
    /\ op.key = "stuff"
    /\ everything["stuff"] = Stuff(InitialFoo, "this will be persisted!")

\* C3: write_with::<T>(k, cb) fails with the not-found error exactly when k is
\* absent, with the type-mismatch error (naming k and T) exactly when k holds
\* another type, and in both cases cb is not invoked; otherwise cb is invoked
\* and the call returns Ok (unless cb itself panics: then it returns nothing).
C3_WriteWithErrors ==
    [][IsWriteWith(op') =>
          LET key == op'.key
              T == op'.T
              absent == key \notin DOMAIN everything
              other == key \in DOMAIN everything /\ everything[key].type # T
          IN  /\ NotFound(ret', key) <=> absent
              /\ TypeMismatch(ret', key, T) <=> other
              /\ (absent \/ other) => (~invoked' /\ ~panicked' /\ everything' = everything)
              /\ ~(absent \/ other) => (invoked' /\ (ret' = Ok <=> ~panicked'))
              /\ ret' = Ok => ~(absent \/ other)]_vars

C3_Witness ==
    /\ IsWriteWith(op)
    /\ op.key \in DOMAIN everything
    /\ everything[op.key].type # op.T
    /\ TypeMismatch(ret, op.key, op.T)
    /\ ~invoked

\* C4: read::<T>(k) returns the value stored under k if and only if k is
\* present with stored type T; it returns the one empty result both when k
\* is missing and when k holds another type.
C4_ReadResult ==
    op.name = "read" =>
        LET matches == op.key \in DOMAIN everything /\ everything[op.key].type = op.T
        IN  /\ matches => ret = Some(everything[op.key])
            /\ ~matches => ret = None
            /\ ret.tag = "Some" => matches

C4_Witness ==
    /\ op.name = "read"
    /\ op.key \in DOMAIN everything
    /\ everything[op.key].type # op.T
    /\ ret = None

\* C5: a read never changes the registry, also when the caller builds a
\* modified copy from the view: the registry after equals the registry
\* before, and a following read returns the old value.
C5_ReadChangesNothing ==
    [][IsRead(op') =>
          /\ everything' = everything
          /\ \A T \in Types, k \in Keys :
                 read(everything', T, k).ret = read(everything, T, k).ret
          /\ (op'.name = "read_copy" /\ local'.tag = "Some") =>
                 /\ ret' = Some(everything[op'.key])
                 /\ read(everything', "Stuff", op'.key).ret = Some(everything[op'.key])]_vars

C5_Witness ==
    /\ op.name = "read_copy"
    /\ local.tag = "Some"
    /\ local.val # everything[op.key]

\* C6: update_json with the identity closure leaves every value of a
\* structured-capable type as it is: to_value followed by from_value gives
\* the value back.
C6_RoundTrip ==
    [][(/\ IsWriteWith(op')
        /\ invoked'
        /\ op'.cb = [kind |-> "update_json", transform |-> [kind |-> "identity"]]) =>
          /\ ~panicked'
          /\ ret' = Ok
          /\ everything' = everything
          /\ from_value(op'.T, to_value(everything[op'.key]))
                 = [tag |-> "Ok", val |-> everything[op'.key]]]_vars

C6_Witness ==
    /\ IsWriteWith(op)
    /\ invoked
    /\ op.cb = [kind |-> "update_json", transform |-> [kind |-> "identity"]]
    /\ ret = Ok
    /\ everything[op.key] = Stuff(InitialFoo, "this will be persisted!")

\* C7: update_json (through write_with) with the closure that sets foo to 1
\* makes the next read show foo = 1 and bar as it was before; on
\* {foo: 42, bar: "this will be persisted!"} it shows
\* {foo: 1, bar: "this will be persisted!"}.
C7_SetFooKeepsBar ==
    [][(/\ IsWriteWith(op')
        /\ invoked'
        /\ op'.cb = [kind |-> "update_json", transform |-> [kind |-> "set_foo_1"]]) =>
          LET before == everything[op'.key]
              after == read(everything', "Stuff", op'.key).ret
          IN  /\ ret' = Ok
              /\ after.tag = "Some"
              /\ after.val.foo = 1
              /\ after.val.bar = before.bar
              /\ before = Stuff(InitialFoo, "this will be persisted!") =>
                     after = Some(Stuff(1, "this will be persisted!"))]_vars

C7_Witness ==
    /\ IsWriteWith(op)
    /\ invoked
    /\ op.cb = [kind |-> "update_json", transform |-> [kind |-> "set_foo_1"]]
    /\ ret = Ok
    /\ everything[op.key] = Stuff(1, "this will be persisted!")

\* C8: a key once pushed stays present in every later state, a key appears
\* only by a successful push of it, and the value under a key changes
\* between two consecutive states only by a successful write_with on that
\* key.
C8_Lifecycle ==
    [][/\ DOMAIN everything \subseteq DOMAIN everything'
       /\ \A k \in DOMAIN everything' \ DOMAIN everything :
              /\ op' = [name |-> "push", key |-> k, value |-> everything'[k]]
              /\ ret' = Ok
       /\ \A k \in DOMAIN everything :
              everything'[k] # everything[k] =>
                  /\ IsWriteWith(op')
                  /\ op'.key = k
                  /\ ret' = Ok]_vars

C8_Witness ==
    /\ IsWriteWith(op)
    /\ ret = Ok
    /\ DOMAIN everything = Keys
    /\ op.cb.kind = "set_baz"
    /\ everything[op.key] = NotSerializableStuff(op.cb.baz)
    /\ op.cb.baz = MaxBaz

\* C9: the structured operations are used only on values of a type that has
\* the capability; NotSerializableStuff has none, yet push, read and
\* write_with work on it, and no call on it ends in a run-time failure.
C9_CapabilityGate ==
    /\ (op.name = "read_json" \/ (IsWriteWith(op) /\ op.cb.kind = "update_json")) =>
           /\ DerivesSerde(op.T)
           /\ op.T # "NotSerializableStuff"
    /\ (/\ op.name \in {"read", "write_with"}
        /\ op.T = "NotSerializableStuff"
        /\ op.key \in DOMAIN everything
        /\ everything[op.key].type = "NotSerializableStuff") =>
           /\ ~panicked
           /\ ret \in {Ok, Some(everything[op.key])}

C9_Witness ==
    /\ IsWriteWith(op)
    /\ op.T = "NotSerializableStuff"
    /\ op.cb.kind = "set_baz"
    /\ ret = Ok
    /\ everything[op.key] = NotSerializableStuff(op.cb.baz)

\* a stored value is a whole value of its type
WellFormed(v) ==
    /\ v.type \in Types
    /\ DOMAIN v = {"type"} \cup FieldNames(v.type)
    /\ \A i \in 1..Len(Fields(v.type)) :
           LET f == Fields(v.type)[i]
           IN  IF f.ty = "usize" THEN v[f.name] \in Nat ELSE v[f.name] \in STRING

\* C10: when the Value the closure returns cannot be converted back into a
\* T, update_json panics: the write_with around it never returns Ok, and
\* the stored value is the one from before, never an invalid or partly
\* converted one.
C10_FailedConversionPanics ==
    [][(IsWriteWith(op') /\ invoked' /\ op'.cb.kind = "update_json") =>
          LET before == everything[op'.key]
              updated == apply_transform(op'.cb.transform, to_value(before))
              convertible == /\ updated.tag = "Ok"
                             /\ from_value(op'.T, updated.val).tag = "Ok"
          IN  /\ ~convertible => (panicked' /\ ret' # Ok /\ everything' = everything)
              /\ convertible => ~panicked'
              /\ \A k \in DOMAIN everything' : WellFormed(everything'[k])]_vars

C10_Witness ==
    /\ IsWriteWith(op)
    /\ invoked
    /\ op.cb = [kind |-> "update_json",
                transform |-> [kind |-> "poke", field |-> "foo", value |-> Number(0 - 1)]]
    /\ panicked
    /\ WellFormed(everything[op.key])

====
